---- MODULE Spec2Model ----
(***************************************************************************)
(* The experiments engine's draw/update contract for one Beta-Bernoulli    *)
(* MAB experiment: draw_arm, update_arm calls served concurrently          *)
(* (startup.sh starts gunicorn with four workers) and the auto-fail job    *)
(* that cron runs beside them (jobs/auto_fail.py, every ten minutes).      *)
(* The job marks a Draw nobody answered in time as a failure: the negative *)
(* case the model would otherwise never see ("Auto fail draws").           *)
(***************************************************************************)
EXTENDS Integers, FiniteSets, Sequences, TLC

\* ---------------------------------------------------------------- bounds
MaxDraws   == 3
NumClients == 2
MaxCmabDraws == 2
MaxContexts  == 1

\* ----------------------------------------------- the experiment's defaults
\* the wizard's new experiment: two arms, each with a Beta(1, 1) prior
NumArms   == 2
AlphaInit == 1
BetaInit  == 1

Arms     == 1..NumArms
Clients  == 1..NumClients
DrawIds  == 1..MaxDraws
NoClient == 0
NoArm    == 0
NoDraw   == 0
Outcomes == {0, 1}
\* an auto-failed Draw is marked as a failure: the negative case the caller
\* never reported
AutoFailOutcome == 0
Terminal == {"completed", "failed"}

VARIABLES
    sticky,       \* experiment.sticky_assignment
    autoFail,     \* experiment.auto_fail
    cutoff,       \* Draws 1..cutoff are older than the auto-fail deadline
    arms,         \* arm id -> [alpha, beta], the live posterior
    draws,        \* draw id -> Draw record
    stickyCache,  \* client id -> arm id served first (NoArm: none yet)
    n_trials,     \* the experiment's trial counter
    lock,         \* arm id -> Draw whose update holds the arm's lock
    inflight,     \* draw id -> the update_arm call being served for it
    sweep,        \* the auto-fail job: position and work list
    last,         \* error answered by the last call; after a sweep that
                  \* nothing interleaved with, "swept"
    applied,      \* draw id -> times an outcome of it was put into the
                  \* posterior, reported or auto-failed
    failEvents,   \* draw id -> times the job failed it and counted the trial
    experimentState,  \* the wizard's store: the experiment being configured
    currentStep,      \* the wizard page: the step on screen
    stepValidations,  \* the wizard page: step -> the validity it last reported
    sent,             \* the create-experiment requests sent by the last step
    isSubmitting,     \* the wizard page: isSubmitting
    cmab,             \* a CMAB experiment with binary outcomes: its declared
                      \* contexts, arms, Draws, trial counter and last answer
    notif,            \* the experiment page: what NotificationDetails was
                      \* given, the time of its render and its check marks
    auth              \* the auth provider's state, localStorage, the page
                      \* on screen, the calls in flight and the backend's
                      \* workspace keys

engine == <<sticky, autoFail, cutoff, arms, draws, stickyCache, n_trials,
            lock, inflight, sweep, last, applied, failEvents>>

frontend == <<experimentState, currentStep, stepValidations, sent,
              isSubmitting>>

pages == <<notif, auth>>

vars == <<engine, cmab, frontend, pages>>

NoneDraw == [status |-> "none", arm |-> NoArm, client |-> NoClient,
             outcome |-> 0]
NoReq    == [pc |-> "idle", outcome |-> 0, prior |-> [alpha |-> 0, beta |-> 0]]

\* =================================================== the wizard's store
\* useExperimentStore: the experiment the wizard is configuring.  The fields
\* no operation below reads (sticky assignment, auto-fail, notifications)
\* are left out of the record.
MethodTypes == {"mab", "cmab", "bayes_ab"}
RewardTypes == {"binary", "real-valued"}
PriorTypes  == {"beta", "normal"}

MuInit    == 0
SigmaInit == 1

\* what parseInt and Number answer for text that is no number, and what is
\* left of it after JSON.parse(JSON.stringify(...)); both stand outside the
\* numbers the inputs below can produce
NaN  == -99
Null == -98

NumericKeys == {"alpha_init", "beta_init", "mu_init", "sigma_init"}

\* { ...r, ...upd }
Merge(r, upd) ==
    [k \in DOMAIN r \cup DOMAIN upd |-> IF k \in DOMAIN upd THEN upd[k] ELSE r[k]]

BetaArm ==
    [name |-> "", description |-> "", alpha_init |-> AlphaInit,
     beta_init |-> BetaInit]

NormalArm ==
    [name |-> "", description |-> "", mu_init |-> MuInit,
     sigma_init |-> SigmaInit]

BayesArm(treatment) == Merge(NormalArm, [is_treatment_arm |-> treatment])

NewContext == [name |-> "", description |-> "", value_type |-> "binary"]

createInitialState ==
    [name |-> "", description |-> "", methodType |-> "mab",
     reward_type |-> "binary", prior_type |-> "beta",
     arms |-> [i \in 1..NumArms |-> BetaArm]]

isMABExperimentStateBeta(es) == es.methodType = "mab" /\ es.prior_type = "beta"

isMABExperimentStateNormal(es) ==
    es.methodType = "mab" /\ es.prior_type = "normal"

isCMABExperimentState(es) == es.methodType = "cmab"

isBayesianABState(es) == es.methodType = "bayes_ab"

updateName(es, name) == Merge(es, [name |-> name])

updateDescription(es, description) == Merge(es, [description |-> description])

updateMethodType(es, newMethodType) ==
    IF newMethodType = es.methodType THEN es
    ELSE CASE newMethodType = "mab" ->
                Merge(es, [methodType |-> newMethodType, prior_type |-> "beta",
                           arms |-> <<BetaArm, BetaArm>>])
           [] newMethodType = "cmab" ->
                Merge(es, [methodType |-> newMethodType,
                           prior_type |-> "normal",
                           arms |-> <<NormalArm, NormalArm>>,
                           contexts |-> <<NewContext>>])
           [] newMethodType = "bayes_ab" ->
                Merge(es, [methodType |-> newMethodType,
                           prior_type |-> "normal",
                           arms |-> <<BayesArm(TRUE), BayesArm(FALSE)>>])

\* mutant: the Bayesian A/B branch writes prior_type as the MAB branch does
updatePriorTypeAnyMethod(es, newPriorType) ==
    IF newPriorType = es.prior_type THEN es
    ELSE Merge(es, [prior_type |-> newPriorType,
                    arms |-> [i \in DOMAIN es.arms |->
                                 IF newPriorType = "beta" THEN BetaArm
                                 ELSE NormalArm]])

\* every arm is replaced by a blank one with the defaults of the new prior;
\* the cmab and bayes_ab branches write the key priorType, not prior_type
updatePriorType(es, newPriorType) ==
    IF newPriorType = es.prior_type THEN es
    ELSE CASE es.methodType = "mab" ->
                Merge(es, [prior_type |-> newPriorType,
                           arms |-> [i \in DOMAIN es.arms |->
                                        IF newPriorType = "beta" THEN BetaArm
                                        ELSE NormalArm]])
           [] es.methodType = "cmab" ->
                Merge(es, [priorType |-> "normal",
                           arms |-> [i \in DOMAIN es.arms |-> NormalArm],
                           contexts |-> es.contexts])
           [] es.methodType = "bayes_ab" ->
                Merge(es, [priorType |-> newPriorType,
                           arms |-> [i \in DOMAIN es.arms |-> NormalArm]])

updateRewardType(es, newRewardType) == Merge(es, [reward_type |-> newRewardType])

\* JSON.parse(JSON.stringify(arms)): NaN comes back as null
JsonClone(armList) ==
    [i \in DOMAIN armList |->
        [k \in DOMAIN armList[i] |->
            IF k \in NumericKeys /\ armList[i][k] = NaN THEN Null
            ELSE armList[i][k]]]

\* index counts from 0, as in the source
updateArm(es, index, armUpdate) ==
    Merge(es, [arms |-> [JsonClone(es.arms) EXCEPT
                            ![index + 1] = Merge(@, armUpdate)]])

\* mutant: the new arm always has the Beta defaults
addArmBeta(es) ==
    IF isBayesianABState(es) THEN es
    ELSE Merge(es, [arms |-> Append(es.arms, BetaArm)])

\* the Bayesian A/B branch throws, which leaves the store as it was
addArm(es) ==
    IF isMABExperimentStateBeta(es)
    THEN Merge(es, [arms |-> Append(es.arms, BetaArm)])
    ELSE IF isMABExperimentStateNormal(es) \/ isCMABExperimentState(es)
    THEN Merge(es, [arms |-> Append(es.arms, NormalArm)])
    ELSE es

\* newArms.splice(index, 1)
Splice(list, index) ==
    IF index < Len(list)
    THEN [i \in 1..(Len(list) - 1) |->
             IF i <= index THEN list[i] ELSE list[i + 1]]
    ELSE list

\* mutant: no lower limit on the number of arms
removeArmUnguarded(es, index) == Merge(es, [arms |-> Splice(es.arms, index)])

removeArm(es, index) ==
    IF Len(es.arms) <= 2 THEN es
    ELSE Merge(es, [arms |-> Splice(es.arms, index)])

updateContext(es, index, contextUpdate) ==
    IF ~isCMABExperimentState(es) THEN es
    ELSE Merge(es, [contexts |-> [es.contexts EXCEPT
                                     ![index + 1] = Merge(@, contextUpdate)]])

resetState == createInitialState

\* ================================================= the wizard's steps
\* step 0 is AddBasicInfo; the steps after it depend on the method type
AllSteps ==
    [mab |-> <<"MABPriorRewardSelection", "AddMABArms", "AddNotifications">>,
     cmab |-> <<"CMABPriorRewardSelection", "AddCMABContexts", "AddCMABArms",
                "AddNotifications">>,
     bayes_ab |-> <<"BayesianABRewardSelection", "AddBayesABArms",
                    "AddNotifications">>]

StepIndexes == 0..Len(AllSteps.cmab)

CurrentStepComponent(es, step) ==
    IF step = 0 THEN "AddBasicInfo" ELSE AllSteps[es.methodType][step]

\* text.trim(), on the texts typed here
Trim(text) == IF text = " " THEN "" ELSE text

\* !x, x <= 0 and x < 0 as JavaScript evaluates them on a number, NaN or null
Falsy(x) == x \in {0, NaN, Null}

LeqZero(x) == x # NaN /\ (x = Null \/ x <= 0)

LtZero(x) == x # NaN /\ x # Null /\ x < 0

Required(text, message) == IF Trim(text) = "" THEN message ELSE ""

\* "is required", overwritten by "should be greater than 0"
Positive(arm, key, required, greater) ==
    IF key \notin DOMAIN arm THEN ""
    ELSE IF LeqZero(arm[key]) THEN greater
    ELSE IF Falsy(arm[key]) THEN required
    ELSE ""

BasicInfoErrors(es) ==
    [name |-> Required(es.name, "Experiment name is required"),
     description |-> Required(es.description, "Description is required"),
     methodType |-> ""]

\* mutant: the prior and the outcome type are not compared
MABPriorRewardUnchecked(es) == [prior_type |-> "", reward_type |-> ""]

MABPriorRewardErrors(es) ==
    [prior_type |-> "",
     reward_type |->
        IF es.prior_type = "beta" /\ es.reward_type = "real-valued"
        THEN "Beta prior is not compatible with real-valued reward"
        ELSE IF es.prior_type = "normal" /\ es.reward_type = "binary"
        THEN "Normal prior is not compatible with binary reward"
        ELSE ""]

ArmTextErrors(arm) ==
    [name |-> Required(arm.name, "Arm name is required"),
     description |-> Required(arm.description, "Description is required")]

SigmaErrors(arm) ==
    [mu_init |-> "",
     sigma_init |-> Positive(arm, "sigma_init", "Std. deviation is required",
                             "Std deviation should be greater than 0")]

MABArmErrors(es) ==
    [i \in DOMAIN es.arms |->
        Merge(ArmTextErrors(es.arms[i]),
              IF es.prior_type = "beta"
              THEN [alpha_init |->
                        Positive(es.arms[i], "alpha_init",
                                 "Alpha prior is required",
                                 "Alpha prior should be greater than 0"),
                    beta_init |->
                        Positive(es.arms[i], "beta_init",
                                 "Beta prior is required",
                                 "Beta prior should be greater than 0")]
              ELSE SigmaErrors(es.arms[i]))]

\* the parameters are looked at only if prior_type is "beta"
BayesABArmErrors(es) ==
    [i \in DOMAIN es.arms |->
        Merge(ArmTextErrors(es.arms[i]),
              IF es.prior_type = "beta"
              THEN SigmaErrors(es.arms[i])
              ELSE [mu_init |-> "", sigma_init |-> ""])]

\* here the second test is sigma_init < 0
CMABArmErrors(es) ==
    [i \in DOMAIN es.arms |->
        Merge(ArmTextErrors(es.arms[i]),
              [mu_init |-> "",
               sigma_init |->
                  IF LtZero(es.arms[i].sigma_init)
                  THEN "Std deviation should be greater than 0"
                  ELSE IF Falsy(es.arms[i].sigma_init)
                  THEN "Std. deviation is required"
                  ELSE ""])]

CMABContextErrors(es) ==
    [i \in DOMAIN es.contexts |->
        [name |-> Required(es.contexts[i].name, "Context name is required"),
         description |->
            Required(es.contexts[i].description, "Description is required"),
         value_type |->
            Required(es.contexts[i].value_type,
                     "Context value type is required")]]

\* validateForm of the step's component: newErrors.  The notifications stay
\* as the store creates them, all switched off, which AddNotifications
\* accepts without a message.
validateForm(component, es) ==
    CASE component = "AddBasicInfo" -> BasicInfoErrors(es)
      [] component = "MABPriorRewardSelection" -> MABPriorRewardErrors(es)
      [] component = "CMABPriorRewardSelection" ->
            [prior_type |-> "", reward_type |-> ""]
      [] component = "BayesianABRewardSelection" -> [reward_type |-> ""]
      [] component = "AddMABArms" -> MABArmErrors(es)
      [] component = "AddBayesABArms" -> BayesABArmErrors(es)
      [] component = "AddCMABArms" -> CMABArmErrors(es)
      [] component = "AddCMABContexts" -> CMABContextErrors(es)
      [] component = "AddNotifications" ->
            [numberOfTrials |-> "", daysElapsed |-> "",
             percentBetterThreshold |-> ""]

Blank(errors) == [k \in DOMAIN errors |-> ""]

\* the components whose errors are a list, one entry per arm or context
ListPages == {"AddMABArms", "AddBayesABArms", "AddCMABArms", "AddCMABContexts"}

\* validateForm's newErrors before any message is written
BlankErrors(component, es) ==
    LET errors == validateForm(component, es)
    IN  IF component \in ListPages
        THEN [i \in DOMAIN errors |-> Blank(errors[i])]
        ELSE Blank(errors)

\* the errors a component starts with: no message; the contexts page starts
\* with one entry, however many contexts there are
InitialErrors(component, es) ==
    IF component = "AddCMABContexts"
    THEN <<[name |-> "", description |-> "", value_type |-> ""]>>
    ELSE BlankErrors(component, es)

\* isValid: no message was written
IsValid(component, es) ==
    validateForm(component, es) = BlankErrors(component, es)

\* the components with a second effect, which reports once on mount
ReportsOnMount(component) ==
    component \in {"MABPriorRewardSelection", "CMABPriorRewardSelection",
                   "BayesianABRewardSelection"}

Validity(component, es) ==
    IF IsValid(component, es) THEN "valid" ELSE "invalid"

\* handleStepValidation, as called by the effects of the step on screen
\* once the store holds `es` and the page shows `step`: a step that was just
\* mounted compares with its initial errors, a step that stayed compares
\* with the errors it had
Reported(validations, fromEs, fromStep, es, step) ==
    LET component == CurrentStepComponent(es, step)
        before == IF step # fromStep
                  THEN InitialErrors(component, es)
                  ELSE validateForm(component, fromEs)
        report == \/ step # fromStep /\ ReportsOnMount(component)
                  \/ validateForm(component, es) # before
    IN  IF report
        THEN [validations EXCEPT ![step] = Validity(component, es)]
        ELSE validations

\* the page after its first render: the store is reset and the first step,
\* whose name and description are blank, has reported itself invalid
PageMounted ==
    [k \in StepIndexes |->
        IF k = 0 THEN Validity("AddBasicInfo", createInitialState)
        ELSE "none"]

\* ------------------------------------------------- the experiment page
\* bound: notification rules of an experiment
MaxRules == 2

NotificationTypes == {"days_elapsed", "trials_completed"}
Thresholds == {1, 2}
\* a day, in the clock's unit
DayLength == 2
\* the clock: the time of a render
Clock == 0..(2 * DayLength)
CreationDates == {Null, 1}
TrialCounts == {Null, 0, 1, 2}

Notifications ==
    [notification_type : NotificationTypes, notification_value : Thresholds,
     is_active : BOOLEAN]

\* Math.ceil(a / b), b > 0
Ceil(a, b) == -((-a) \div b)

daysSinceDate(dateString, now) ==
    IF dateString = Null THEN 0 ELSE Ceil(now - dateString, DayLength)

getValue(notification, dateCreated, nTrials, now) ==
    IF notification.notification_type = "days_elapsed"
    THEN daysSinceDate(dateCreated, now)
    ELSE IF nTrials = Null THEN 0 ELSE nTrials

\* the check mark next to a rule
CheckShown(notification, dateCreated, nTrials, now) ==
    getValue(notification, dateCreated, nTrials, now)
        >= notification.notification_value

\* one render of the card: a check mark or none for each rule
NotificationDetails(notificationData, dateCreated, nTrials, now) ==
    [notificationData |-> notificationData,
     dateCreated |-> dateCreated,
     nTrials |-> nTrials,
     now |-> now,
     checked |-> [i \in 1..Len(notificationData) |->
                     CheckShown(notificationData[i], dateCreated, nTrials,
                                now)]]

\* the page before the experiment is loaded: no rules, no experiment
ExperimentDetailsMounted == NotificationDetails(<<>>, Null, Null, 0)

\* ---------------------------------------------------- the auth provider
Workspaces == {1, 2}
\* the workspace a login lands in
DefaultWorkspace == 1
\* an access token is scoped to one workspace: it is modelled by that
\* workspace's id; Expired is a token the backend answers with 401
Expired == 0
Tokens == Workspaces
\* GET /workspace/current: the workspace of the bearer token
WorkspaceOf(token) == token

LoginPath == "/login"
VerificationPath == "/verification-required"
Paths == {LoginPath, VerificationPath, "/", "/workspaces"}
\* the pages under the layout that wraps its children in ProtectedComponent
Protected == {"/", "/workspaces"}

\* an async call of the provider: where it waits, the token and the
\* argument its closure holds
Idle == [pc |-> "idle", token |-> Null, name |-> Null, flag |-> FALSE]

ProtectedComponentOld(token, isVerified, isLoading, requireVerified, isClient) ==
    ~(token = Null \/ (requireVerified /\ ~isVerified) \/ ~isClient)

\* TRUE: the children are rendered; FALSE: null
ProtectedComponent(token, isVerified, isLoading, requireVerified, isClient) ==
    ~(~isClient \/ isLoading \/ token = Null
         \/ (requireVerified /\ ~isVerified))

\* ProtectedComponent's effect: where it sends the browser
Redirect(a) ==
    IF a.path \in Protected /\ ~a.isLoading
    THEN IF a.token = Null THEN LoginPath
         ELSE IF a.requireVerified /\ ~a.isVerified THEN VerificationPath
         ELSE a.path
    ELSE a.path

\* the page after the provider's state changed and the effects ran; isClient
\* is true once the mount effect ran
Rendered(a) ==
    LET path == Redirect(a)
    IN  [a EXCEPT
           !.path = path,
           !.children = /\ path \in Protected
                        /\ ProtectedComponent(a.token, a.isVerified,
                                              a.isLoading, a.requireVerified,
                                              TRUE)]

\* a page load: the provider's state comes from localStorage, the calls of
\* the page before are gone, and checkUserStatus starts if a token is stored
Mounted(a, path, requireVerified, workspaceId) ==
    Rendered([a EXCEPT
        !.path = path,
        !.requireVerified = requireVerified,
        !.pageWorkspace = workspaceId,
        !.token = a.stored,
        !.isVerified = FALSE,
        !.isLoading = (a.stored # Null),
        !.loginError = "",
        !.currentWorkspace = Null,
        !.check = IF a.stored # Null
                  THEN [Idle EXCEPT !.pc = "getUser", !.token = a.stored]
                  ELSE Idle,
        !.login = Idle,
        !.switch = Idle,
        !.rotate = Idle,
        !.event = "mounted"])

\* no key was rotated yet
NoRotation == [page |-> Null, key |-> Null, switched |-> FALSE]

\* a browser that holds `stored`, whose user is `verified` at the backend
Browser(stored, verified) ==
    [token |-> Null, stored |-> stored, isVerified |-> FALSE,
     isLoading |-> FALSE, loginError |-> "", currentWorkspace |-> Null,
     path |-> LoginPath, requireVerified |-> TRUE,
     pageWorkspace |-> DefaultWorkspace, children |-> FALSE,
     check |-> Idle, login |-> Idle, switch |-> Idle, rotate |-> Idle,
     verified |-> verified, rotated |-> NoRotation, loggedOut |-> FALSE,
     event |-> "mounted"]

AuthMounted == Mounted(Browser(Null, TRUE), LoginPath, TRUE, DefaultWorkspace)

InitPages == notif = ExperimentDetailsMounted /\ auth = AuthMounted

InitEngine ==
    /\ sticky \in BOOLEAN
    /\ autoFail \in BOOLEAN
    /\ cutoff = 0
    /\ arms = [a \in Arms |-> [alpha |-> AlphaInit, beta |-> BetaInit]]
    /\ draws = [d \in DrawIds |-> NoneDraw]
    /\ stickyCache = [c \in Clients |-> NoArm]
    /\ n_trials = 0
    /\ lock = [a \in Arms |-> NoDraw]
    /\ inflight = [d \in DrawIds |-> NoReq]
    /\ sweep = [pc |-> "idle", work |-> {}]
    /\ last = "none"
    /\ applied = [d \in DrawIds |-> 0]
    /\ failEvents = [d \in DrawIds |-> 0]

\* ------------------------------------------------- a CMAB experiment
\* the wizard's new CMAB experiment declares one context
NumContexts == 1

CmabDrawIds == 1..MaxCmabDraws

\* an arm's posterior is refitted from all the observations of the arm; it
\* is kept here as what it was fitted to: how many observations, and how
\* many of them successes
CmabExperiment(dim) ==
    [dim |-> dim,
     arms |-> [a \in Arms |-> [n |-> 0, s |-> 0]],
     draws |-> [d \in CmabDrawIds |->
                  [status |-> "none", arm |-> NoArm, context |-> <<>>,
                   outcome |-> 0]],
     n_trials |-> 0,
     last |-> "none"]

InitFrontend ==
    /\ experimentState = createInitialState
    /\ currentStep = 0
    /\ stepValidations = PageMounted
    /\ sent = <<>>
    /\ isSubmitting = FALSE

Init ==
    /\ InitEngine
    /\ cmab = CmabExperiment(NumContexts)
    /\ InitFrontend
    /\ InitPages

\* ------------------------------------------------------------------ time
\* Draw ids follow creation order, so the Draws created at or before
\* now - auto_fail_value are the first `cutoff` ones, whatever the limit is.
\* Time passing moves the cutoff forward, never past the newest Draw: a Draw
\* is not older than the limit at the moment it is created.
Created == {d \in DrawIds : draws[d].status # "none"}

Tick ==
    /\ autoFail
    /\ \E k \in (cutoff + 1)..Cardinality(Created) : cutoff' = k
    /\ last' = "none"
    /\ UNCHANGED <<frontend, cmab, pages, sticky, autoFail, arms, draws, stickyCache, n_trials,
                   lock, inflight, sweep, applied, failEvents>>

\* ------------------------------------------------------------- draw_arm
Unused == {d \in DrawIds : draws[d].status = "none"}

\* draw ids are handed out in order; NoDraw when the store is full
NextDrawId ==
    IF Unused = {} THEN NoDraw
    ELSE CHOOSE d \in Unused : \A e \in Unused : d <= e

\* the client ids callers send: none or one of the clients; an experiment
\* without sticky assignment never reads the id, so none stands for all
CallerIds == IF sticky THEN Clients \cup {NoClient} ELSE {NoClient}

\* mutant: draw_arm does not ask for the client id
DrawUnvalidated(c) == TRUE

\* ValidationError: sticky assignment requested without a client id
DrawValid(c) == ~(sticky /\ c = NoClient)

\* mutant: the cache is never consulted
StickyMiss(c) == NoArm

\* StickyAssignmentCache: the arm cached for the client, NoArm on a miss
StickyLookup(c) ==
    IF sticky /\ c # NoClient THEN stickyCache[c] ELSE NoArm

\* AllocationPolicy: Thompson sampling draws one random sample per arm, so
\* any arm can come out on top
PolicyChoices == Arms

DrawArm(c) ==
    /\ IF ~DrawValid(c)
       THEN /\ last' = "ValidationError"
            /\ UNCHANGED <<draws, stickyCache>>
       ELSE /\ NextDrawId # NoDraw
            /\ \E a \in (IF StickyLookup(c) # NoArm
                         THEN {StickyLookup(c)} ELSE PolicyChoices) :
                 /\ draws' = [draws EXCEPT ![NextDrawId] =
                        [status |-> "pending", arm |-> a, client |-> c,
                         outcome |-> 0]]
                 /\ stickyCache' =
                        IF sticky /\ c # NoClient
                        THEN [stickyCache EXCEPT ![c] = a]
                        ELSE stickyCache
            /\ last' = "none"
    /\ UNCHANGED <<frontend, cmab, pages, sticky, autoFail, cutoff, arms, n_trials, lock, inflight,
                   sweep, applied, failEvents>>

\* ------------------------------------------------------------ update_arm
\* mutant: success and failure counts are swapped
BetaBernoulliSwapped(prior, y) ==
    [alpha |-> prior.alpha + (1 - y), beta |-> prior.beta + y]

\* PosteriorUpdateEngine rule 1: alpha' = alpha + y, beta' = beta + (1 - y)
BetaBernoulli(prior, y) ==
    [alpha |-> prior.alpha + y, beta |-> prior.beta + (1 - y)]

\* mutant: a settled Draw is not recognised as one
ReplayUnchecked(d) == FALSE

\* a Draw that is already completed or failed cannot be replayed
Replay(d) == draws[d].status \in Terminal

\* mutant: update_arm does not wait for the arm's lock
LockIgnored(a) == TRUE

\* the arm's exclusive lock is free
LockFree(a) == lock[a] = NoDraw

\* entry of update_arm for a known draw id: reject a settled Draw, else
\* take the arm's lock and read the prior under it
UpdateBegin(d, y) ==
    /\ inflight[d].pc = "idle"
    /\ draws[d].status # "none"
    /\ IF Replay(d)
       THEN /\ last' = "ConflictError"
            /\ UNCHANGED <<lock, inflight>>
       ELSE /\ LockFree(draws[d].arm)
            /\ lock' = [lock EXCEPT ![draws[d].arm] = d]
            /\ inflight' = [inflight EXCEPT ![d] =
                   [pc |-> "commit", outcome |-> y,
                    prior |-> arms[draws[d].arm]]]
            /\ last' = "none"
    /\ UNCHANGED <<frontend, cmab, pages, sticky, autoFail, cutoff, arms, draws, stickyCache,
                   n_trials, sweep, applied, failEvents>>

\* one transaction, under the arm's lock: the new ArmState, the Draw's
\* completion and the trial counter are written together; `persist` is
\* whether the new ArmState is part of it
CommitWith(d, persist) ==
    /\ inflight[d].pc = "commit"
    /\ arms' = IF persist
               THEN [arms EXCEPT ![draws[d].arm] =
                        BetaBernoulli(inflight[d].prior, inflight[d].outcome)]
               ELSE arms
    /\ draws' = [draws EXCEPT ![d].status = "completed",
                              ![d].outcome = inflight[d].outcome]
    /\ n_trials' = n_trials + 1
    /\ applied' = IF persist THEN [applied EXCEPT ![d] = @ + 1] ELSE applied
    /\ last' = "none"
    /\ lock' = [lock EXCEPT ![draws[d].arm] = NoDraw]
    /\ inflight' = [inflight EXCEPT ![d] = NoReq]
    /\ UNCHANGED <<frontend, cmab, pages, sticky, autoFail, cutoff, stickyCache, sweep, failEvents>>

\* mutant: the Draw is marked completed without the new ArmState
CommitMarkOnly(d) == CommitWith(d, FALSE)

Commit(d) == CommitWith(d, TRUE)

\* -------------------------------------------------------- auto-fail job
\* the Draw was created at or before now - auto_fail_value
Overdue(d) == d <= cutoff

\* mutant: the deadline is not looked at
StaleDrawsAnyAge ==
    IF autoFail
    THEN {d \in DrawIds : draws[d].status = "pending"}
    ELSE {}

\* mutant: the status is not looked at
StaleDrawsAnyStatus ==
    IF autoFail
    THEN {d \in DrawIds : draws[d].status # "none" /\ Overdue(d)}
    ELSE {}

\* the pending Draws older than the experiment's auto-fail deadline
StaleDraws ==
    IF autoFail
    THEN {d \in DrawIds : draws[d].status = "pending" /\ Overdue(d)}
    ELSE {}

SweepBegin ==
    /\ sweep.pc = "idle"
    /\ sweep' = [pc |-> "running", work |-> StaleDraws]
    /\ last' = IF last = "swept" THEN "again" ELSE "sweeping"
    /\ UNCHANGED <<frontend, cmab, pages, sticky, autoFail, cutoff, arms, draws, stickyCache,
                   n_trials, lock, inflight, applied, failEvents>>

\* one Draw of the work list.  If `canFail`, the Draw is marked as a failure
\* under its arm's lock: pending -> failed, counted as a trial, and, if
\* `feed`, recorded in the arm's posterior as the negative case that was
\* never reported.  Otherwise the Draw is skipped.
SweepFailWith(d, canFail, feed) ==
    /\ sweep.pc = "running"
    /\ d \in sweep.work
    /\ sweep' = [sweep EXCEPT !.work = @ \ {d}]
    /\ IF canFail
       THEN /\ LockFree(draws[d].arm)
            /\ draws' = [draws EXCEPT ![d].status = "failed",
                                      ![d].outcome = AutoFailOutcome]
            /\ n_trials' = n_trials + 1
            /\ failEvents' = [failEvents EXCEPT ![d] = @ + 1]
            /\ arms' = IF feed
                       THEN [arms EXCEPT ![draws[d].arm] =
                                BetaBernoulli(@, AutoFailOutcome)]
                       ELSE arms
            /\ applied' = IF feed
                          THEN [applied EXCEPT ![d] = @ + 1]
                          ELSE applied
       ELSE UNCHANGED <<draws, n_trials, failEvents, arms, applied>>
    /\ UNCHANGED <<frontend, cmab, pages, sticky, autoFail, cutoff, stickyCache, lock, inflight,
                   last>>

\* mutant: the Draw is failed as listed, whatever became of it since
SweepFailBlind(d) == SweepFailWith(d, TRUE, TRUE)

\* mutant: the Draw is marked failed and the model is told nothing
SweepFailUnfed(d) == SweepFailWith(d, d \in StaleDraws, FALSE)

\* the job applies its condition again, to the Draw as it is now
SweepFail(d) == SweepFailWith(d, d \in StaleDraws, TRUE)

SweepEnd ==
    /\ sweep.pc = "running"
    /\ sweep.work = {}
    /\ sweep' = [sweep EXCEPT !.pc = "idle"]
    /\ last' = IF last \in {"sweeping", "again"} THEN "swept" ELSE last
    /\ UNCHANGED <<frontend, cmab, pages, sticky, autoFail, cutoff, arms, draws, stickyCache,
                   n_trials, lock, inflight, applied, failEvents>>

Next ==
    \/ Tick
    \/ \E c \in CallerIds : DrawArm(c)
    \/ \E d \in DrawIds, y \in Outcomes : UpdateBegin(d, y)
    \/ \E d \in DrawIds : Commit(d)
    \/ SweepBegin
    \/ \E d \in DrawIds : SweepFail(d)
    \/ SweepEnd

Spec == Init /\ [][Next]_vars

\* An experiment without sticky assignment, auto-fail on or off.  A sticky
\* experiment differs only in which arms draw_arm may pick and in the client
\* ids it stores, so its Draws, arms and counters move as some run of this
\* specification does.
InitAutoFail == Init /\ ~sticky

SpecAutoFail == InitAutoFail /\ [][Next]_vars

\* An experiment with sticky assignment and without auto-fail: the job never
\* reads or writes the sticky cache, and finds nothing to fail here.
InitSticky == Init /\ sticky /\ ~autoFail

NextSticky ==
    \/ \E c \in CallerIds : DrawArm(c)
    \/ \E d \in DrawIds, y \in Outcomes : UpdateBegin(d, y)
    \/ \E d \in DrawIds : Commit(d)

SpecSticky == InitSticky /\ [][NextSticky]_vars

\* ================================================================ claims
Statuses(d) == <<draws[d].status, draws'[d].status>>

\* C1: a Draw's status only moves none -> pending -> completed or
\* none -> pending -> failed, and no step of draw_arm, update_arm or the
\* auto-fail job changes the status, the arm or the outcome of a Draw that
\* is completed or failed.
C1_DrawLifecycle ==
    [][\A d \in DrawIds :
          /\ \/ draws'[d].status = draws[d].status
             \/ Statuses(d) \in {<<"none", "pending">>,
                                 <<"pending", "completed">>,
                                 <<"pending", "failed">>}
          /\ draws[d].status \in Terminal =>
                /\ draws'[d].status = draws[d].status
                /\ draws'[d].arm = draws[d].arm
                /\ draws'[d].outcome = draws[d].outcome]_vars

\* a completed Draw and a failed Draw are there, and an update_arm has just
\* been turned away
C1_Witness ==
    /\ \E d \in DrawIds : draws[d].status = "completed"
    /\ \E d \in DrawIds : draws[d].status = "failed"
    /\ last = "ConflictError"

\* C2: update_arm called on a Draw that is already completed or failed
\* answers ConflictError and leaves every arm's posterior, every Draw and
\* the trial counter as they were.
C2_ReplayRejected ==
    [][\A d \in DrawIds, y \in Outcomes :
          (UpdateBegin(d, y) /\ draws[d].status \in Terminal) =>
              /\ last' = "ConflictError"
              /\ arms' = arms
              /\ draws' = draws
              /\ n_trials' = n_trials]_vars

\* the only Draw is completed, no call is in flight, and the last answer is
\* ConflictError: it answers an update_arm on that Draw
C2_Witness ==
    /\ Created = {1}
    /\ draws[1].status = "completed"
    /\ inflight[1].pc = "idle"
    /\ last = "ConflictError"

\* the Draws of a client, and the first of them
DrawsOf(c) == {d \in Created : draws[d].client = c}
FirstDraw(c) == CHOOSE d \in DrawsOf(c) : \A e \in DrawsOf(c) : d <= e

\* C3: with sticky assignment on, every draw_arm of a client returns the arm
\* its first draw_arm returned, whatever other clients draw and update in
\* between.
C3_StickyArm ==
    sticky => \A c \in Clients : \A d \in DrawsOf(c) :
                  draws[d].arm = draws[FirstDraw(c)].arm

\* a client drew, another client drew the other arm and had it updated, and
\* the first client drew again
C3_Witness ==
    /\ sticky
    /\ draws[1].client = 1 /\ draws[3].client = 1
    /\ draws[2].client = 2 /\ draws[2].arm # draws[1].arm
    /\ draws[2].status = "completed"
    /\ arms[draws[2].arm] # [alpha |-> AlphaInit, beta |-> BetaInit]
    /\ draws[3].status = "pending"

RECURSIVE SumOver(_, _)
\* sum of f[d] over the Draws of S
SumOver(f, S) ==
    IF S = {} THEN 0
    ELSE LET d == CHOOSE x \in S : TRUE IN f[d] + SumOver(f, S \ {d})

SettledOn(a) ==
    {d \in DrawIds : draws[d].status \in Terminal /\ draws[d].arm = a}

SweepStep == sweep' # sweep

\* the Draws a step marks failed
FailedNow == {d \in DrawIds : draws[d].status # "failed"
                                /\ draws'[d].status = "failed"}

Due(d) == autoFail /\ draws[d].status = "pending" /\ d <= cutoff

\* C7: a sweep lists exactly the Draws that are pending and older than the
\* experiment's auto-fail deadline, ends only when it has handled them all,
\* marks a listed Draw failed if it is still pending and overdue, and leaves
\* every other Draw as it was: younger, settled, or of an experiment without
\* a deadline.
C7_SweepFailsTheStale ==
    [][/\ (sweep.pc = "idle" /\ sweep'.pc = "running") =>
              sweep'.work = {d \in DrawIds : Due(d)}
       /\ (sweep.pc = "running" /\ sweep'.pc = "idle") => sweep.work = {}
       /\ SweepStep =>
              \A d \in DrawIds :
                  IF d \in sweep.work \ sweep'.work /\ Due(d)
                  THEN draws'[d] = [draws[d] EXCEPT !.status = "failed"]
                  ELSE draws'[d] = draws[d]]_vars

\* a sweep has ended with nothing interleaved: the overdue Draw is failed, a
\* completed one and a pending, younger one are as they were
C7_Witness ==
    /\ last = "swept"
    /\ \E d \in DrawIds : draws[d].status = "failed" /\ d <= cutoff
    /\ \E d \in DrawIds : draws[d].status = "completed"
    /\ \E d \in DrawIds : draws[d].status = "pending" /\ d > cutoff

Settled == {d \in DrawIds : draws[d].status \in Terminal}

\* C8: a sweep run right after a sweep, with nothing else in between,
\* changes no Draw, arm or counter; and every failed Draw has put exactly one
\* "no observation" event into the trial counter, which counts each settled
\* Draw once.
C8_SweepIdempotent ==
    /\ [](/\ \A d \in DrawIds : failEvents[d] <= 1
          /\ n_trials = Cardinality(Settled))
    /\ [][(last = "again" /\ SweepStep) =>
              /\ draws' = draws
              /\ arms' = arms
              /\ n_trials' = n_trials
              /\ failEvents' = failEvents]_vars

\* the second of two sweeps in a row is under way, the first having failed
\* a Draw
C8_Witness ==
    /\ last = "again"
    /\ sweep.pc = "running"
    /\ \E d \in DrawIds : draws[d].status = "failed"

C10_StickyNeedsClient ==
    [][(sticky /\ DrawArm(NoClient)) =>
          /\ last' = "ValidationError"
          /\ draws' = draws
          /\ stickyCache' = stickyCache
          /\ arms' = arms
          /\ n_trials' = n_trials]_vars

\* a draw_arm without client id has just been turned away, between the
\* draws of a client
C10_Witness ==
    /\ sticky
    /\ last = "ValidationError"
    /\ \E c \in Clients : stickyCache[c] # NoArm
    /\ Unused # {}
\* the Draws an update_arm call completes in a step
CompletedNow == {d \in DrawIds : draws[d].status = "pending"
                                   /\ draws'[d].status = "completed"}

\* C13: an update_arm that succeeds with outcome y on a Beta-Bernoulli arm
\* leaves the arm, compared with its state just before the commit, with
\* alpha + y and beta + (1 - y), and no other arm changed.
C13_BetaBernoulliExact ==
    [][\A d \in CompletedNow :
          LET a == draws[d].arm
              y == draws'[d].outcome
          IN  /\ y \in Outcomes
              /\ arms'[a].alpha = arms[a].alpha + y
              /\ arms'[a].beta = arms[a].beta + (1 - y)
              /\ \A b \in Arms \ {a} : arms'[b] = arms[b]]_vars

\* one arm has taken a success and then a failure from two update_arm calls
C13_Witness ==
    \E d1, d2 \in DrawIds :
        /\ d1 # d2 /\ draws[d1].arm = draws[d2].arm
        /\ draws[d1].status = "completed" /\ draws[d1].outcome = 1
        /\ draws[d2].status = "completed" /\ draws[d2].outcome = 0
        /\ arms[draws[d1].arm] = [alpha |-> AlphaInit + 1,
                                  beta |-> BetaInit + 1]
\* ============================================ the store, called directly
MaxArms == 3

\* text typed into a number input, and what the handlers make of it
parseInt(text) ==
    CASE text = "1" -> 1
      [] text = "0" -> 0
      [] text = "-1" -> -1
      [] OTHER -> NaN

Number(text) ==
    CASE text = "1" -> 1
      [] text = "0" -> 0
      [] text = "-1" -> -1
      [] text = "" -> 0
      [] OTHER -> NaN

\* the updateArm calls of the wizard's arm pages for the arm at `index`,
\* given the texts typed: name, description, the prior's parameters (mu_init,
\* which nothing constrains, is left as it is) and, on the first arm of a
\* Bayesian A/B experiment, is_treatment_arm
ArmUpdates(es, index, names, descriptions, numberTexts) ==
    {[name |-> t] : t \in names}
    \cup {[description |-> t] : t \in descriptions}
    \cup (IF isMABExperimentStateBeta(es)
          THEN {[alpha_init |-> parseInt(t)] : t \in numberTexts}
               \cup {[beta_init |-> parseInt(t)] : t \in numberTexts}
          ELSE {[sigma_init |-> Number(t)] : t \in numberTexts})
    \cup (IF isBayesianABState(es) /\ index = 0
          THEN {[is_treatment_arm |-> TRUE]} ELSE {})

\* the texts the direct calls are made with; descriptions are written the
\* way names are and are left blank here
StoreNames == {"a"}
StoreDescriptions == {}
StoreNumberTexts == {"0"}

Store(es) ==
    /\ experimentState' = es
    /\ UNCHANGED <<engine, cmab, pages, currentStep, stepValidations, sent,
                   isSubmitting>>

CallUpdateMethodType ==
    \E m \in MethodTypes : Store(updateMethodType(experimentState, m))

CallUpdatePriorType ==
    \E p \in PriorTypes : Store(updatePriorType(experimentState, p))

CallUpdateRewardType ==
    \E r \in RewardTypes : Store(updateRewardType(experimentState, r))

CallUpdateArm ==
    \E index \in 0..(Len(experimentState.arms) - 1) :
        \E u \in ArmUpdates(experimentState, index, StoreNames,
                            StoreDescriptions, StoreNumberTexts) :
            Store(updateArm(experimentState, index, u))

CallAddArm ==
    /\ Len(experimentState.arms) < MaxArms
    /\ Store(addArm(experimentState))

CallRemoveArm ==
    \E index \in 0..MaxArms : Store(removeArm(experimentState, index))

CallResetState == Store(resetState)

NextStore ==
    \/ CallUpdateMethodType
    \/ CallUpdatePriorType
    \/ CallUpdateRewardType
    \/ CallUpdateArm
    \/ CallAddArm
    \/ CallRemoveArm
    \/ CallResetState

InitStore == Init /\ ~sticky /\ ~autoFail

SpecStore == InitStore /\ [][NextStore]_vars

\* C14: in every state of the store reached through addArm, removeArm,
\* updateArm on an existing index, updateMethodType, updatePriorType,
\* updateRewardType and resetState, there are at least 2 arms.
C14_AtLeastTwoArms == Len(experimentState.arms) >= 2

\* a MAB experiment moved to the normal prior, whose two arms were edited
\* since: two arms is where removeArm stops
C14_Witness ==
    /\ isMABExperimentStateNormal(experimentState)
    /\ Len(experimentState.arms) = 2
    /\ experimentState.arms[1].name = "a"
    /\ experimentState.arms[2].sigma_init = 0

TreatmentArms(es) ==
    {i \in DOMAIN es.arms :
        /\ "is_treatment_arm" \in DOMAIN es.arms[i]
        /\ es.arms[i].is_treatment_arm = TRUE}

\* C15: a store state whose method type is bayes_ab has exactly 2 arms and
\* exactly one of them has is_treatment_arm = true.
C15_BayesOneTreatment ==
    isBayesianABState(experimentState) =>
        /\ Len(experimentState.arms) = 2
        /\ Cardinality(TreatmentArms(experimentState)) = 1

PriorKeys(p) ==
    IF p = "beta" THEN {"alpha_init", "beta_init"}
    ELSE {"mu_init", "sigma_init"}

\* C19: every arm of the store carries the parameters of the experiment's
\* prior_type, and only those: alpha_init and beta_init when it is beta,
\* mu_init and sigma_init when it is normal.
C19_ArmsMatchPrior ==
    \A i \in DOMAIN experimentState.arms :
        DOMAIN experimentState.arms[i] \cap NumericKeys =
            PriorKeys(experimentState.prior_type)

\* a MAB experiment switched to the normal prior, with an arm added since
C19_Witness ==
    /\ isMABExperimentStateNormal(experimentState)
    /\ Len(experimentState.arms) = MaxArms
    /\ experimentState.arms[1].name = "a"
    /\ experimentState.arms[MaxArms].name = ""

\* C20: an experiment whose method type is cmab or bayes_ab has prior_type
\* normal, whatever calls of updateMethodType, updatePriorType and
\* updateRewardType came before.
C20_PriorFixedPerMethod ==
    experimentState.methodType \in {"cmab", "bayes_ab"} =>
        experimentState.prior_type = "normal"

\* updatePriorType("beta") was called on a Bayesian A/B experiment
C20_Witness ==
    /\ isBayesianABState(experimentState)
    /\ "priorType" \in DOMAIN experimentState
    /\ experimentState.priorType = "beta"
    /\ experimentState.prior_type = "normal"
\* ==================================================== the wizard's page
\* Each action is one event of the page with the renders and effects that
\* follow it.  A change of the method type sends the page back to step 0.
RenderWith(es, step, request, submitting) ==
    LET landed == IF es.methodType # experimentState.methodType
                  THEN 0 ELSE step
    IN  /\ experimentState' = es
        /\ currentStep' = landed
        /\ stepValidations' =
               Reported(stepValidations, experimentState, currentStep, es,
                        landed)
        /\ sent' = request
        /\ isSubmitting' = submitting
        /\ UNCHANGED <<engine, cmab, pages>>

\* a handler that leaves isSubmitting alone
Render(es, step, request) == RenderWith(es, step, request, isSubmitting)

OnScreen == CurrentStepComponent(experimentState, currentStep)

TypeName(text) ==
    /\ OnScreen = "AddBasicInfo"
    /\ Render(updateName(experimentState, text), currentStep, <<>>)

TypeDescription(text) ==
    /\ OnScreen = "AddBasicInfo"
    /\ Render(updateDescription(experimentState, text), currentStep, <<>>)

SelectMethodType(m) ==
    /\ OnScreen = "AddBasicInfo"
    /\ Render(updateMethodType(experimentState, m), currentStep, <<>>)

SelectPriorType(p) ==
    /\ OnScreen = "MABPriorRewardSelection"
    /\ Render(updatePriorType(experimentState, p), currentStep, <<>>)

SelectRewardType(r) ==
    /\ ReportsOnMount(OnScreen)
    /\ Render(updateRewardType(experimentState, r), currentStep, <<>>)

TypeContext(index, contextUpdate) ==
    /\ OnScreen = "AddCMABContexts"
    /\ Render(updateContext(experimentState, index, contextUpdate),
              currentStep, <<>>)

ArmPages == {"AddMABArms", "AddCMABArms", "AddBayesABArms"}

\* the name input of the first Bayesian A/B arm calls updateArm twice
TypeArm(index, armUpdate) ==
    /\ OnScreen \in ArmPages
    /\ "is_treatment_arm" \notin DOMAIN armUpdate
    /\ Render(IF OnScreen = "AddBayesABArms" /\ index = 0
                 /\ "name" \in DOMAIN armUpdate
              THEN updateArm(updateArm(experimentState, index, armUpdate),
                             index, [is_treatment_arm |-> TRUE])
              ELSE updateArm(experimentState, index, armUpdate),
              currentStep, <<>>)

\* the Bayesian A/B page disables the button at two arms
ClickAddArm ==
    /\ OnScreen \in {"AddMABArms", "AddCMABArms"}
    /\ Len(experimentState.arms) < MaxArms
    /\ Render(addArm(experimentState), currentStep, <<>>)

ClickRemoveArm ==
    /\ OnScreen \in ArmPages
    /\ Len(experimentState.arms) > 2
    /\ Render(removeArm(experimentState, Len(experimentState.arms) - 1),
              currentStep, <<>>)

LastStep == Len(AllSteps[experimentState.methodType])

\* mutant: Next does not look at the step's validation
nextStepUnguarded ==
    /\ currentStep # LastStep
    /\ Render(experimentState, currentStep + 1, <<>>)

nextStep ==
    /\ currentStep # LastStep
    /\ stepValidations[currentStep] = "valid"
    /\ Render(experimentState, currentStep + 1, <<>>)

prevStep ==
    /\ currentStep # 0
    /\ Render(experimentState, currentStep - 1, <<>>)

\* the breadcrumb links to the steps before the one on screen
GoToStep(step) ==
    /\ step < currentStep
    /\ Render(experimentState, step, <<>>)

\* stepValidations.every((validation) => validation.isValid)
EveryValid == \A k \in StepIndexes : stepValidations[k] # "invalid"

\* api.post(endpoint, experimentData): the body is the store's state as
\* JSON, in which NaN is written as null
createNewExperiment(es) == Merge(es, [arms |-> JsonClone(es.arms)])

\* the Create Experiment button is on the last step, and not disabled
CreateEnabled == currentStep = LastStep /\ EveryValid /\ ~isSubmitting

\* the button of the last step: the request carries the store as it is,
\* then the store is reset; stepValidations stay as they are.  isSubmitting
\* is set before the request is issued and cleared again in the same
\* handler, without waiting for the response.
onSubmit ==
    /\ CreateEnabled
    /\ RenderWith(resetState, currentStep,
                  <<createNewExperiment(experimentState)>>, FALSE)

\* the texts typed: blank, white space or a word for the experiment's name,
\* blank or a word elsewhere
WizardNames == {"", " ", "a"}
WizardArmNames == {"", "a"}
WizardDescriptions == {"", "d"}

NextWizard ==
    \/ \E text \in WizardNames : TypeName(text)
    \/ \E text \in WizardDescriptions : TypeDescription(text)
    \/ \E m \in MethodTypes : SelectMethodType(m)
    \/ \E p \in PriorTypes : SelectPriorType(p)
    \/ \E r \in RewardTypes : SelectRewardType(r)
    \/ \E u \in {[name |-> "a"], [description |-> "d"]} : TypeContext(0, u)
    \/ \E index \in 0..(Len(experimentState.arms) - 1) :
          \E u \in ArmUpdates(experimentState, index, WizardArmNames,
                              WizardDescriptions, {}) : TypeArm(index, u)
    \/ ClickAddArm
    \/ ClickRemoveArm
    \/ nextStep
    \/ prevStep
    \/ \E step \in StepIndexes : GoToStep(step)
    \/ onSubmit

SpecWizard == InitStore /\ [][NextWizard]_vars
\* ------------------------------------------ the wizard at its arms step
\* The wizard after name, description, method type, prior and outcome type,
\* contexts and the arms' names and descriptions were typed in, step by
\* step: the arms step is on screen and every step up to it is valid.
Named(r) == Merge(r, [name |-> "a", description |-> "d"])

FilledIn(m, p) ==
    LET chosen == updateMethodType(Named(createInitialState), m)
        typed  == IF m = "mab" /\ p = "normal"
                  THEN updateRewardType(updatePriorType(chosen, p),
                                        "real-valued")
                  ELSE chosen
        withContexts ==
            IF m = "cmab"
            THEN Merge(typed, [contexts |->
                     [i \in DOMAIN typed.contexts |->
                         Named(typed.contexts[i])]])
            ELSE typed
    IN  Merge(withContexts,
              [arms |-> [i \in DOMAIN typed.arms |-> Named(typed.arms[i])]])

ArmsStep(m) ==
    CHOOSE k \in 1..Len(AllSteps[m]) : AllSteps[m][k] \in ArmPages

InitPriors ==
    /\ InitEngine
    /\ InitPages
    /\ cmab = CmabExperiment(NumContexts)
    /\ ~sticky
    /\ ~autoFail
    /\ \E m \in MethodTypes, p \in PriorTypes :
          /\ m # "mab" => p = "normal"
          /\ experimentState = FilledIn(m, p)
          /\ currentStep = ArmsStep(m)
          /\ stepValidations =
                 [k \in StepIndexes |->
                     IF k <= ArmsStep(m) THEN "valid" ELSE "none"]
    /\ sent = <<>>
    /\ isSubmitting = FALSE

\* the texts typed into the inputs of alpha_init, beta_init and sigma_init
PriorTexts == {"", "0", "-1", "1"}

NextPriors ==
    \/ \E index \in 0..(Len(experimentState.arms) - 1) :
          \E u \in ArmUpdates(experimentState, index, {}, {}, PriorTexts) :
              TypeArm(index, u)
    \/ nextStep
    \/ prevStep
    \/ onSubmit

SpecWizardPriors == InitPriors /\ [][NextPriors]_vars

Requests == {sent[i] : i \in DOMAIN sent}

IsPositive(x) == x \notin {NaN, Null} /\ x > 0

\* C16: every create-experiment request carries arms with valid prior
\* parameters: alpha_init > 0 and beta_init > 0 on a Beta-prior arm,
\* sigma_init > 0 on a Normal-prior arm, whatever the method type.
C16_RequestPriorsValid ==
    \A r \in Requests : \A i \in DOMAIN r.arms :
        \A k \in DOMAIN r.arms[i] \cap {"alpha_init", "beta_init", "sigma_init"} :
            IsPositive(r.arms[i][k])

NonBlank(text) == Trim(text) # ""

\* C18: every create-experiment request carries an experiment whose name and
\* description are non-blank and whose every arm has a non-blank name and
\* description.
C18_RequestFilledIn ==
    \A r \in Requests :
        /\ NonBlank(r.name)
        /\ NonBlank(r.description)
        /\ \A i \in DOMAIN r.arms :
              NonBlank(r.arms[i].name) /\ NonBlank(r.arms[i].description)
\* ====================================== draw_arm and update_arm of a CMAB
ContextValues == {0, 1}

\* the contexts callers send: none, or a vector of any length up to one
\* more than an experiment declares
Contexts ==
    UNION {[1..k -> ContextValues] : k \in 0..(MaxContexts + 1)}

DrawRequests ==
    {[present |-> FALSE, context |-> <<>>]}
    \cup {[present |-> TRUE, context |-> x] : x \in Contexts}

\* mutant: the context is taken as it comes
ContextUnvalidated(request) == TRUE

\* ValidationError: the context is missing or its dimensionality is not the
\* experiment's
ContextValid(request) ==
    request.present /\ Len(request.context) = cmab.dim

CmabUnused == {d \in CmabDrawIds : cmab.draws[d].status = "none"}

CmabDrawArm(request) ==
    /\ IF ~ContextValid(request)
       THEN cmab' = [cmab EXCEPT !.last = "ValidationError"]
       ELSE /\ CmabUnused # {}
            /\ \E a \in PolicyChoices :
                 LET d == CHOOSE x \in CmabUnused :
                              \A e \in CmabUnused : x <= e
                 IN  cmab' = [cmab EXCEPT
                         !.draws[d] = [status |-> "pending", arm |-> a,
                                       context |-> request.context,
                                       outcome |-> 0],
                         !.last = "none"]
    /\ UNCHANGED <<engine, frontend, pages>>

\* the observations the arm has: its completed Draws
History(a) ==
    {d \in CmabDrawIds :
        cmab.draws[d].status = "completed" /\ cmab.draws[d].arm = a}

\* the MAP estimate over all the arm's observations, the new one included
Refit(a, y) ==
    [n |-> Cardinality(History(a)) + 1,
     s |-> SumOver([d \in CmabDrawIds |-> cmab.draws[d].outcome],
                   History(a)) + y]

\* mutant: the estimate is used whether Newton-Raphson converged or not
LaplaceUnchecked(prior, fit, converged) == fit

\* PosteriorUpdateEngine rule 4: the fit, or the prior unchanged when
\* Newton-Raphson did not converge within the iteration cap
LaplaceBernoulli(prior, fit, converged) == IF converged THEN fit ELSE prior

\* update_arm, taken as the one transaction it is under the arm's lock;
\* whether the iteration converges is left open
CmabUpdateArm(d, y, converged) ==
    /\ cmab.draws[d].status # "none"
    /\ IF cmab.draws[d].status \in Terminal
       THEN cmab' = [cmab EXCEPT !.last = "ConflictError"]
       ELSE LET a == cmab.draws[d].arm
            IN  cmab' = [cmab EXCEPT
                    !.arms[a] = LaplaceBernoulli(@, Refit(a, y), converged),
                    !.draws[d].status = "completed",
                    !.draws[d].outcome = y,
                    !.n_trials = @ + 1,
                    !.last = IF converged THEN "none"
                             ELSE "ConvergenceWarning"]
    /\ UNCHANGED <<engine, frontend, pages>>

InitCMAB ==
    /\ InitEngine
    /\ InitPages
    /\ ~sticky
    /\ ~autoFail
    /\ \E dim \in NumContexts..(NumContexts + MaxContexts - 1) :
          cmab = CmabExperiment(dim)
    /\ InitFrontend

NextCMAB ==
    \/ \E request \in DrawRequests : CmabDrawArm(request)
    \/ \E d \in CmabDrawIds, y \in Outcomes, converged \in BOOLEAN :
          CmabUpdateArm(d, y, converged)

SpecCMAB == InitCMAB /\ [][NextCMAB]_vars

\* C11: draw_arm on a CMAB experiment with a context that is missing or of
\* another dimensionality than the experiment declares answers
\* ValidationError and changes nothing: no Draw is created, no arm's state
\* and no counter is touched.
C11_ContextValidated ==
    [][\A request \in DrawRequests :
          (CmabDrawArm(request)
           /\ ~(request.present /\ Len(request.context) = cmab.dim)) =>
              /\ cmab'.last = "ValidationError"
              /\ cmab'.draws = cmab.draws
              /\ cmab'.arms = cmab.arms
              /\ cmab'.n_trials = cmab.n_trials]_vars

\* a draw_arm was turned away while a Draw of the experiment is pending and
\* another is completed
C11_Witness ==
    /\ cmab.last = "ValidationError"
    /\ \E d \in CmabDrawIds : cmab.draws[d].status = "pending"
    /\ \E d \in CmabDrawIds : cmab.draws[d].status = "completed"

\* C12: an update_arm whose Laplace estimation does not converge still
\* completes: the arm's state stays exactly as it was, the Draw is marked
\* completed and the trial counter goes up by one.
C12_NotConvergedCompletes ==
    [][\A d \in CmabDrawIds, y \in Outcomes :
          (CmabUpdateArm(d, y, FALSE) /\ cmab.draws[d].status = "pending") =>
              /\ cmab'.arms = cmab.arms
              /\ cmab'.draws[d].status = "completed"
              /\ cmab'.n_trials = cmab.n_trials + 1
              /\ cmab'.last = "ConvergenceWarning"]_vars

\* the second update of an arm did not converge: the arm is still fitted to
\* its first observation alone, and both Draws are completed and counted
C12_Witness ==
    /\ cmab.last = "ConvergenceWarning"
    /\ cmab.n_trials = 2
    /\ \E a \in Arms :
          /\ Cardinality(History(a)) = 2
          /\ cmab.arms[a].n = 1
\* ================================== the store's contexts, called directly
MaxContextList == 3

ContextTypes == {"binary", "real-valued"}

addContext(es) ==
    IF ~isCMABExperimentState(es) THEN es
    ELSE Merge(es, [contexts |-> Append(es.contexts, NewContext)])

\* mutant: no lower limit on the number of contexts
removeContextUnguarded(es, index) ==
    IF ~isCMABExperimentState(es) THEN es
    ELSE Merge(es, [contexts |-> Splice(es.contexts, index)])

removeContext(es, index) ==
    IF ~isCMABExperimentState(es) \/ Len(es.contexts) <= 1 THEN es
    ELSE Merge(es, [contexts |-> Splice(es.contexts, index)])

\* the updateContext calls of the contexts page: name, description and
\* value type
ContextUpdates ==
    {[name |-> "a"], [description |-> "d"]}
    \cup {[value_type |-> t] : t \in ContextTypes}

ContextCount(es) == IF "contexts" \in DOMAIN es THEN Len(es.contexts) ELSE 0

CallAddContext ==
    /\ ContextCount(experimentState) < MaxContextList
    /\ Store(addContext(experimentState))

CallRemoveContext ==
    \E index \in 0..MaxContextList : Store(removeContext(experimentState, index))

CallUpdateContext ==
    \E index \in 0..(ContextCount(experimentState) - 1) :
        \E u \in ContextUpdates :
            Store(updateContext(experimentState, index, u))

NextContexts ==
    \/ CallUpdateMethodType
    \/ CallAddContext
    \/ CallRemoveContext
    \/ CallUpdateContext

SpecContexts == InitStore /\ [][NextContexts]_vars

\* C21: a store state whose method type is cmab, reached through
\* updateMethodType, addContext, removeContext and updateContext on an
\* existing index, has a context list with at least 1 context.
C21_AtLeastOneContext ==
    isCMABExperimentState(experimentState) =>
        /\ "contexts" \in DOMAIN experimentState
        /\ Len(experimentState.contexts) >= 1

\* a CMAB experiment with one context, which was edited since it was
\* created: one context is where removeContext stops
C21_Witness ==
    /\ isCMABExperimentState(experimentState)
    /\ Len(experimentState.contexts) = 1
    /\ experimentState.contexts[1].value_type = "real-valued"
    /\ experimentState.contexts[1].name = "a"
\* C27: from the moment onSubmit issues a create-experiment request,
\* isSubmitting is true and the Create Experiment button is disabled.  The
\* request issued by the step just taken is unanswered when the handler
\* returns: its response is handled in a later task.
C27_SubmitDisablesButton ==
    [][sent' # sent => isSubmitting' /\ ~CreateEnabled']_vars

StepsValid(es) ==
    \A k \in 0..Len(AllSteps[es.methodType]) :
        IsValid(CurrentStepComponent(es, k), es)

\* C29: whenever the wizard is on its last step and every step of the
\* selected method type is valid for the store as it is, the Create
\* Experiment button is enabled.
C29_ValidCanSubmit ==
    (currentStep = LastStep /\ StepsValid(experimentState)) => CreateEnabled
\* --------------------------------------------------- notification rules
RuleLists ==
    UNION {[1..n -> Notifications] : n \in 0..MaxRules}

\* getMABExperimentById answers and the page renders the card with the
\* experiment's rules, creation date and trial counter
ShowExperiment ==
    /\ \E notificationData \in RuleLists, dateCreated \in CreationDates,
          nTrials \in TrialCounts, now \in Clock :
          /\ now >= notif.now
          /\ notif' = NotificationDetails(notificationData, dateCreated,
                                          nTrials, now)
    /\ UNCHANGED <<engine, cmab, frontend, auth>>

NextNotifications == ShowExperiment

SpecNotifications == InitStore /\ [][NextNotifications]_vars

\* C22: a notification rule is flagged as satisfied exactly when the rule is
\* active and its counter (the trial counter for trials_completed, the days
\* since creation for days_elapsed) is at least its threshold.
C22_FlaggedIffActiveAndReached ==
    \A i \in 1..Len(notif.notificationData) :
        LET rule == notif.notificationData[i]
        IN  notif.checked[i] <=>
                /\ rule.is_active
                /\ getValue(rule, notif.dateCreated, notif.nTrials,
                            notif.now) >= rule.notification_value
\* ------------------------------------------------- sign-in and workspaces
InvalidCredentials == "Invalid username or password"
UnexpectedError == "An unexpected error occurred. Please try again later."

\* the backend's answers to a request that carries `token`
Answers(token) == IF token = Expired THEN {401} ELSE {200, 500}

\* the response interceptor and the caller's try/catch: a 401 clears the
\* stored token and, off the login page, loads the login page; `ok` is the
\* provider after a 200, `failed` after the request was rejected
OnStatus(a, status, ok, failed) ==
    IF status = 200 THEN ok
    ELSE IF status # 401 THEN failed
    ELSE IF a.path = LoginPath THEN [failed EXCEPT !.stored = Null]
    ELSE Mounted([a EXCEPT !.stored = Null], LoginPath, TRUE,
                 DefaultWorkspace)

\* getLoginToken rethrows whatever the request threw as a new Error
GetLoginTokenError(status) == [message |-> "Error fetching login token"]

\* login's catch: the message for the error it caught
LoginErrorOf(error) ==
    IF "status" \in DOMAIN error /\ error.status = 401
    THEN InvalidCredentials
    ELSE UnexpectedError

logout(a) ==
    [a EXCEPT !.stored = Null, !.token = Null, !.isVerified = FALSE,
              !.currentWorkspace = Null, !.path = LoginPath,
              !.loggedOut = TRUE]

Step(a) ==
    /\ auth' = Rendered(a)
    /\ UNCHANGED <<engine, cmab, frontend, notif>>

\* the browser loads a page: a typed address or a reload
OpenPage ==
    \E path \in Paths, requireVerified \in BOOLEAN, workspaceId \in Workspaces :
        /\ path # "/" => requireVerified
        /\ path # "/workspaces" => workspaceId = DefaultWorkspace
        /\ Step(Mounted(auth, path, requireVerified, workspaceId))

\* checkUserStatus: GET /user/ is answered
CheckUserAnswered ==
    /\ auth.check.pc = "getUser"
    /\ \E status \in Answers(auth.check.token) :
          Step(OnStatus(auth, status,
                 [auth EXCEPT !.isVerified = auth.verified,
                              !.check.pc = "getCurrentWorkspace",
                              !.event = "getUser 200"],
                 [logout(auth) EXCEPT !.isLoading = FALSE,
                                      !.check = Idle,
                                      !.event = "logout"]))

\* checkUserStatus: fetchCurrentWorkspace's request is answered
CheckWorkspaceAnswered ==
    /\ auth.check.pc = "getCurrentWorkspace"
    /\ \E status \in Answers(auth.check.token) :
          LET next == [auth EXCEPT !.check.pc = "getUserWorkspaces",
                                   !.event = "getCurrentWorkspace"]
          IN  Step(OnStatus(auth, status,
                     [next EXCEPT !.currentWorkspace =
                                      WorkspaceOf(auth.check.token)],
                     next))

\* checkUserStatus: fetchWorkspaces' request is answered
CheckWorkspacesAnswered ==
    /\ auth.check.pc = "getUserWorkspaces"
    /\ Step([auth EXCEPT !.isLoading = FALSE, !.check = Idle,
                         !.event = "checked"])

\* the Log Out button of the verification page
ClickLogout ==
    /\ auth.path = VerificationPath
    /\ Step([logout(auth) EXCEPT !.event = "logout"])

\* the login form is submitted
CallLogin ==
    /\ auth.path = LoginPath
    /\ auth.login.pc = "idle"
    /\ Step([auth EXCEPT !.isLoading = TRUE,
                         !.loggedOut = FALSE,
                         !.login = [Idle EXCEPT !.pc = "getLoginToken"],
                         !.event = "login"])

\* login: POST /login is answered, with or without is_verified
LoginAnswered ==
    /\ auth.login.pc = "getLoginToken"
    /\ \E status \in {200, 401, 500}, withFlag \in BOOLEAN :
          /\ status # 200 => ~withFlag
          /\ LET access_token == DefaultWorkspace
                 error == GetLoginTokenError(status)
             IN  Step(OnStatus(auth, status,
                    [auth EXCEPT
                        !.stored = access_token,
                        !.token = access_token,
                        !.loginError = "",
                        !.isVerified = IF withFlag THEN auth.verified ELSE @,
                        !.login = [pc |-> IF withFlag
                                          THEN "getCurrentWorkspace"
                                          ELSE "getUser",
                                   token |-> access_token,
                                   name |-> Null,
                                   flag |-> withFlag],
                        !.event = "login 200"],
                    [auth EXCEPT
                        !.loginError = LoginErrorOf(error),
                        !.isLoading = FALSE,
                        !.login = Idle,
                        !.event = IF status = 401 THEN "login 401"
                                  ELSE "login failed"]))

\* login: GET /user/ is answered
LoginUserAnswered ==
    /\ auth.login.pc = "getUser"
    /\ \E status \in Answers(auth.login.token) :
          LET next == [auth EXCEPT !.login.pc = "getCurrentWorkspace",
                                   !.event = "getUser"]
          IN  Step(OnStatus(auth, status,
                     [next EXCEPT !.isVerified = auth.verified],
                     next))

\* login: GET /workspace/current is answered
LoginWorkspaceAnswered ==
    /\ auth.login.pc = "getCurrentWorkspace"
    /\ \E status \in Answers(auth.login.token) :
          LET next == [auth EXCEPT !.login.pc = "getUserWorkspaces",
                                   !.event = "getCurrentWorkspace"]
          IN  Step(OnStatus(auth, status,
                     [next EXCEPT !.currentWorkspace =
                                      WorkspaceOf(auth.login.token)],
                     next))

\* login: the workspaces are answered, and the browser is sent on
LoginWorkspacesAnswered ==
    /\ auth.login.pc = "getUserWorkspaces"
    /\ Step([auth EXCEPT
                !.path = IF auth.login.flag /\ ~auth.verified
                         THEN VerificationPath
                         ELSE "/",
                !.requireVerified = TRUE,
                !.isLoading = FALSE,
                !.login = Idle,
                !.event = "logged in"])

\* switchWorkspace as the auth context of this render holds it
switchWorkspace(a, workspaceName, awaited) ==
    [a EXCEPT !.isLoading = TRUE,
              !.switch = [pc |-> "switchWorkspace", token |-> a.token,
                          name |-> workspaceName, flag |-> awaited]]

\* the workspace selector
CallSwitchWorkspace ==
    /\ auth.children
    /\ auth.switch.pc = "idle"
    /\ \E workspaceName \in Workspaces :
          Step([switchWorkspace(auth, workspaceName, FALSE)
                   EXCEPT !.event = "switchWorkspace"])

\* switchWorkspace: POST /workspace/switch is answered; a rejection is
\* thrown on to handleRotateApiKey, if that is the caller
SwitchAnswered ==
    /\ auth.switch.pc = "switchWorkspace"
    /\ \E status \in Answers(auth.switch.token) :
          LET access_token == auth.switch.name
          IN  Step(OnStatus(auth, status,
                     [auth EXCEPT !.stored = access_token,
                                  !.token = access_token,
                                  !.switch.pc = "getCurrentWorkspace",
                                  !.event = "switched token"],
                     [auth EXCEPT !.isLoading = FALSE,
                                  !.switch = Idle,
                                  !.rotate = IF auth.switch.flag THEN Idle
                                             ELSE @,
                                  !.event = "switchWorkspace failed"]))

\* switchWorkspace: fetchCurrentWorkspace's request, which carries the token
\* of the render that switchWorkspace was called in, is answered
SwitchWorkspaceAnswered ==
    /\ auth.switch.pc = "getCurrentWorkspace"
    /\ \E status \in Answers(auth.switch.token) :
          LET next == [auth EXCEPT
                          !.isLoading = FALSE,
                          !.switch = Idle,
                          !.rotate = IF auth.switch.flag
                                     THEN [@ EXCEPT !.pc =
                                              "rotateWorkspaceApiKey"]
                                     ELSE @,
                          !.event = "switchWorkspace resolved"]
          IN  Step(OnStatus(auth, status,
                     [next EXCEPT !.currentWorkspace =
                                      WorkspaceOf(auth.switch.token),
                                  !.event = "switchWorkspace resolved, fetched"],
                     next))

\* the Rotate API Key button of a workspace's page
handleRotateApiKey ==
    /\ auth.path = "/workspaces"
    /\ auth.children
    /\ auth.rotate.pc = "idle"
    /\ LET workspaceId == auth.pageWorkspace
           switch == auth.currentWorkspace # workspaceId
           call == [pc |-> IF switch THEN "switchWorkspace"
                           ELSE "rotateWorkspaceApiKey",
                    token |-> auth.token, name |-> workspaceId,
                    flag |-> switch]
       IN  /\ switch => auth.switch.pc = "idle"
           /\ Step([(IF switch THEN switchWorkspace(auth, workspaceId, TRUE)
                     ELSE auth)
                       EXCEPT !.rotate = call, !.event = "rotate"])

\* handleRotateApiKey: PUT /workspace/rotate-key is answered; the backend
\* rotated the key of the bearer token's workspace
RotateAnswered ==
    /\ auth.rotate.pc = "rotateWorkspaceApiKey"
    /\ \E status \in Answers(auth.rotate.token) :
          LET next == [auth EXCEPT !.rotate = Idle, !.event = "rotated"]
          IN  Step(OnStatus(auth, status,
                     [next EXCEPT !.rotated =
                         [page |-> auth.rotate.name,
                          key |-> WorkspaceOf(auth.rotate.token),
                          switched |-> auth.rotate.flag]],
                     [next EXCEPT !.event = "rotate failed"]))

NextAuth ==
    \/ OpenPage
    \/ CheckUserAnswered
    \/ CheckWorkspaceAnswered
    \/ CheckWorkspacesAnswered
    \/ ClickLogout
    \/ CallLogin
    \/ LoginAnswered
    \/ LoginUserAnswered
    \/ LoginWorkspaceAnswered
    \/ LoginWorkspacesAnswered
    \/ CallSwitchWorkspace
    \/ SwitchAnswered
    \/ SwitchWorkspaceAnswered
    \/ handleRotateApiKey
    \/ RotateAnswered

InitAuth ==
    /\ InitEngine
    /\ ~sticky
    /\ ~autoFail
    /\ cmab = CmabExperiment(NumContexts)
    /\ InitFrontend
    /\ notif = ExperimentDetailsMounted
    /\ \E stored \in {Null, Expired} \cup Tokens, verified \in BOOLEAN,
          path \in Paths :
          auth = Mounted(Browser(stored, verified), path, TRUE,
                         DefaultWorkspace)

SpecAuth == InitAuth /\ [][NextAuth]_vars

\* C23: ProtectedComponent renders its children only if a token is present,
\* the auth provider is not loading and, when requireVerified is set, the
\* isVerified flag is true; in every other state it renders nothing.
C23_ChildrenOnlyWhenAllowed ==
    auth.children =>
        /\ auth.token # Null
        /\ ~auth.isLoading
        /\ auth.requireVerified => auth.isVerified

\* the children are rendered for a user who was checked and found verified
\* on a page that requires it, while no call is loading
C23_Witness ==
    /\ auth.children
    /\ auth.requireVerified
    /\ auth.isVerified
    /\ auth.event = "checked"

\* C24: the rotate-key request sent from the page of workspace W rotates the
\* key of W, also when W was not the current workspace when the button was
\* pressed.
C24_RotatesPageWorkspace ==
    auth.rotated # NoRotation => auth.rotated.key = auth.rotated.page

\* C25: after logout() ran, and until login is next called, the token is
\* null in the auth context and in localStorage and currentWorkspace is
\* null, whatever request that was started before completes afterwards.
C25_LoggedOutStays ==
    auth.loggedOut =>
        /\ auth.token = Null
        /\ auth.stored = Null
        /\ auth.currentWorkspace = Null

\* C26: when switchWorkspace(name) resolves with the current workspace
\* fetched, the context's token is the new access token and
\* currentWorkspace is the workspace of that token, the one switched to.
C26_SwitchedToWorkspace ==
    [][auth'.event = "switchWorkspace resolved, fetched" =>
          /\ auth'.token = auth.switch.name
          /\ auth'.currentWorkspace = WorkspaceOf(auth.switch.name)]_vars

\* C30: when the backend answers a login attempt with 401, login() sets
\* loginError to "Invalid username or password", leaves the token as it
\* was and does not leave the login page.
C30_Login401 ==
    [][auth'.event = "login 401" =>
          /\ auth'.loginError = InvalidCredentials
          /\ auth'.token = auth.token
          /\ auth'.path = LoginPath]_vars
====
